---------------------------- MODULE Spec2Model ----------------------------
(***************************************************************************)
(* State-machine model of src/app.py, the Streamlit dashboard: the session *)
(* state (df, current_index, reports, groq_client), the file-uploader      *)
(* widget, and one script run of main() split at its program positions     *)
(* (sidebar, navigation row, generate-all loop, record view).  A user      *)
(* interaction happens only while the script is idle and starts one run;   *)
(* st.rerun() starts a further run by itself.                              *)
(***************************************************************************)
EXTENDS Integers, Sequences, FiniteSets, TLC

\* ---------------------------------------------------------------- bounds
MaxRows == 3

\* ------------------------------------------------------- input universes
Texts == {"t1", "t2"}

NoneVal == "None"
Raise == "<exception>"

\* what the remote completion can do on one call: answer with a text,
\* answer with empty content, or raise
Responses == Texts \cup {"", Raise}

\* the uploadable tables: one per record count, every row different from the
\* others (row k of the file holds [row |-> k])
Tables == {[k \in 1..n |-> [row |-> k]] : n \in 0..MaxRows}

NoFile == [kind |-> "none"]
Malformed == [kind |-> "malformed"]
CsvFile(t) == [kind |-> "csv", rows |-> t]
Files == {Malformed} \cup {CsvFile(t) : t \in Tables}

NoDf == [kind |-> "none"]
Frame(t) == [kind |-> "table", rows |-> t]

NoCsv == [enabled |-> FALSE, rows |-> <<>>, raised |-> FALSE]
CsvError == [enabled |-> FALSE, rows |-> <<>>, raised |-> TRUE]
NoNav == [shown |-> FALSE, prev |-> FALSE, next |-> FALSE]
NoCall == [idx |-> -2, r |-> NoneVal, site |-> "none"]

\* values current_index can take: row positions, and -1 (Python counts a
\* negative position from the end)
Indices == (0 - 1)..(MaxRows - 1)

VARIABLES
    df,             \* st.session_state.df
    current_index,  \* st.session_state.current_index
    reports,        \* st.session_state.reports : index -> text
    groq_client,    \* st.session_state.groq_client : TRUE = client, FALSE = None
    uploaded_file,  \* content of the st.file_uploader widget
    pc,             \* position of the running script, or "idle"
    trigger,        \* the widget interaction that started the current run
    idx,            \* loop variable of the generate-all loop
    nav,            \* navigation buttons as rendered by the latest run
    page,           \* how far the latest run rendered the page
    csv,            \* the "Download All Reports as CSV" button as rendered
    errors,         \* st.error messages emitted by the current run
    calls,          \* completion calls per index since the last user action
    failed,         \* indices with a failed call since the last upload
    succ,           \* texts returned by successful calls of the current loop
    last            \* the latest completion call

vars == <<df, current_index, reports, groq_client, uploaded_file, pc, trigger,
          idx, nav, page, csv, errors, calls, failed, succ, last>>

\* ------------------------------------------------------------- helpers
len(d) == IF d.kind = "table" THEN Len(d.rows) ELSE 0

\* DataFrame.iloc[i]: i from the end when negative, IndexError out of range
ilocInRange(d, i) == (0 - len(d)) <= i /\ i <= len(d) - 1

iloc(d, i) == IF i < 0 THEN d.rows[len(d) + i + 1] ELSE d.rows[i + 1]

Put(m, k, v) == [i \in (DOMAIN m) \cup {k} |-> IF i = k THEN v ELSE m[i]]

EmptyMap == [i \in {} |-> ""]

ZeroCalls == [i \in Indices |-> 0]

\* ---------------------------------------------------- initialize_groq_client
\* secret present -> a client; secret absent or constructor raising -> None
\* with one st.error
initialize_groq_client(ok) == [client |-> ok, errs |-> IF ok THEN 0 ELSE 1]

\* ------------------------------------------------ generate_report_with_groq
\* returns the message content, or None with one st.error when anything raises
generate_report_with_groq_silent(r) ==
    IF r = Raise THEN [report |-> NoneVal, errs |-> 0]
                 ELSE [report |-> r, errs |-> 0]

generate_report_with_groq(r) ==
    IF r = Raise THEN [report |-> NoneVal, errs |-> 1]
                 ELSE [report |-> r, errs |-> 0]

Truthy_not_none(report) == report # NoneVal

\* Python truth value of the returned report (`if report:`)
Truthy(report) == report # NoneVal /\ report # ""

StoreResult_always(m, i, report) == Put(m, i, report)

\* `if report: st.session_state.reports[i] = report`
StoreResult(m, i, report) == IF Truthy(report) THEN Put(m, i, report) ELSE m

LoopNeedsReport_always(i, m) == TRUE

\* `if idx not in st.session_state.reports` of the generate-all loop
LoopNeedsReport(i, m) == i \notin DOMAIN m

ViewNeedsReport_once(i, m) == i \notin DOMAIN m /\ i \notin failed

\* `if st.session_state.current_index not in st.session_state.reports`
ViewNeedsReport(i, m) == i \notin DOMAIN m

\* `disabled=` arguments of the two navigation buttons
PreviousDisabled(i) == i <= 0

NextDisabled(i, n) == i >= n - 1

MainContent_any_client(d, client) == d.kind # "none"

\* guard of the main content area
MainContent(d, client) == d.kind # "none" /\ client

\* the list comprehension-like loop building all_reports
RECURSIVE all_reports(_, _, _)
all_reports(m, i, n) ==
    IF i >= n THEN <<>>
    ELSE (IF i \in DOMAIN m THEN <<m[i]>> ELSE <<>>) \o all_reports(m, i + 1, n)

DownloadAll_partial(d, m) ==
    IF Cardinality(DOMAIN m) >= 1
    THEN [enabled |-> TRUE,
          rows |-> [i \in 1..Len(all_reports(m, 0, len(d))) |->
                       <<d.rows[i], all_reports(m, 0, len(d))[i]>>],
          raised |-> FALSE]
    ELSE NoCsv

\* the "Download All Reports as CSV" column: when the map is as large as the
\* table, the table with the all_reports column (a ValueError if the column
\* is shorter than the table); a disabled button otherwise
DownloadAll(d, m) ==
    IF Cardinality(DOMAIN m) = len(d)
    THEN IF Len(all_reports(m, 0, len(d))) = len(d)
         THEN [enabled |-> TRUE,
               rows |-> [i \in 1..len(d) |->
                            <<d.rows[i], all_reports(m, 0, len(d))[i]>>],
               raised |-> FALSE]
         ELSE CsvError
    ELSE NoCsv

\* ----------------------------------------------------------------- Init
Init ==
    /\ df = NoDf
    /\ current_index = 0
    /\ reports = EmptyMap
    /\ \E ok \in BOOLEAN :
          /\ groq_client = initialize_groq_client(ok).client
          /\ errors = initialize_groq_client(ok).errs
    /\ uploaded_file = NoFile
    /\ pc = "sidebar"
    /\ trigger = "load"
    /\ idx = 0
    /\ nav = NoNav
    /\ page = "running"
    /\ csv = NoCsv
    /\ calls = ZeroCalls
    /\ failed = {}
    /\ succ = EmptyMap
    /\ last = NoCall

\* --------------------------------------------------------- user actions
\* every widget interaction starts a fresh script run
StartRun(t) ==
    /\ pc = "idle"
    /\ pc' = "sidebar"
    /\ trigger' = t
    /\ page' = "running"
    /\ nav' = NoNav
    /\ csv' = NoCsv
    /\ errors' = 0
    /\ calls' = ZeroCalls
    /\ succ' = EmptyMap
    /\ last' = NoCall
    /\ idx' = 0
    /\ UNCHANGED <<df, current_index, reports, groq_client>>

Upload ==
    \E f \in Files :
        /\ StartRun("upload")
        /\ uploaded_file' = f
        /\ failed' = {}

RemoveFile ==
    /\ uploaded_file # NoFile
    /\ StartRun("remove")
    /\ uploaded_file' = NoFile
    /\ UNCHANGED failed

ClickPrevious ==
    /\ nav.shown /\ nav.prev
    /\ StartRun("prev")
    /\ UNCHANGED <<uploaded_file, failed>>

ClickNext ==
    /\ nav.shown /\ nav.next
    /\ StartRun("next")
    /\ UNCHANGED <<uploaded_file, failed>>

ClickGenerateAll ==
    /\ nav.shown
    /\ StartRun("genall")
    /\ UNCHANGED <<uploaded_file, failed>>

\* "Copy Report to Clipboard" (or a download button): a plain re-render
ClickCopy ==
    /\ page = "full"
    /\ StartRun("copy")
    /\ UNCHANGED <<uploaded_file, failed>>

\* ------------------------------------------------------- the script run
\* outcomes of pd.read_csv on the uploader's content.  A run started by a
\* widget interaction gets the file at its start; a run started by
\* st.rerun() may get the same file object again, either rewound or already
\* read to its end, where read_csv raises.
ReadOutcomes(f, t) ==
    IF f.kind = "none" THEN {"skip"}
    ELSE IF f.kind = "malformed" THEN {"raise"}
    ELSE IF t = "rerun" THEN {"ok", "raise"}
    ELSE {"ok"}

\* sidebar: connection status, file uploader, read of the uploaded file
Sidebar ==
    /\ pc = "sidebar"
    /\ \E read \in ReadOutcomes(uploaded_file, trigger) :
        LET statusErr == IF groq_client THEN 0 ELSE 1
            readErr == IF read = "raise" THEN 1 ELSE 0
            d == IF read = "ok" THEN Frame(uploaded_file.rows) ELSE df
        IN /\ df' = d
           /\ IF read = "ok"
              THEN reports' = EmptyMap /\ current_index' = 0
              ELSE UNCHANGED <<reports, current_index>>
           /\ errors' = errors + statusErr + readErr
           /\ IF MainContent(d, groq_client)
              THEN pc' = "main" /\ page' = "running"
              ELSE /\ pc' = "idle"
                   /\ page' = IF ~groq_client THEN "no_client" ELSE "no_file"
    /\ UNCHANGED <<groq_client, uploaded_file, trigger, idx, nav, csv, calls,
                   failed, succ, last>>

\* progress bar and navigation row
Main ==
    /\ pc = "main"
    /\ IF len(df) = 0
       THEN \* ZeroDivisionError in the progress computation
            /\ pc' = "idle"
            /\ page' = "crash"
            /\ UNCHANGED <<current_index, trigger, idx, nav, errors>>
       ELSE IF trigger = "prev"
       THEN /\ current_index' = current_index - 1
            /\ pc' = "sidebar"
            /\ trigger' = "rerun"
            /\ errors' = 0
            /\ UNCHANGED <<idx, nav, page>>
       ELSE IF trigger = "next"
       THEN /\ current_index' = current_index + 1
            /\ pc' = "sidebar"
            /\ trigger' = "rerun"
            /\ errors' = 0
            /\ UNCHANGED <<idx, nav, page>>
       ELSE /\ nav' = [shown |-> TRUE,
                       prev |-> ~PreviousDisabled(current_index),
                       next |-> ~NextDisabled(current_index, len(df))]
            /\ IF trigger = "genall"
               THEN pc' = "genall" /\ idx' = 0
               ELSE pc' = "view" /\ UNCHANGED idx
            /\ UNCHANGED <<current_index, trigger, page, errors>>
    /\ UNCHANGED <<df, reports, groq_client, uploaded_file, csv, calls, failed,
                   succ, last>>

\* one iteration of the generate-all loop, or its exit into st.rerun()
GenerateAll ==
    /\ pc = "genall"
    /\ IF idx >= len(df)
       THEN /\ pc' = "sidebar"
            /\ trigger' = "rerun"
            /\ errors' = 0
            /\ nav' = NoNav
            /\ UNCHANGED <<reports, idx, calls, failed, succ, last>>
       ELSE /\ idx' = idx + 1
            /\ IF LoopNeedsReport(idx, reports)
               THEN \E r \in Responses :
                      LET res == generate_report_with_groq(r)
                      IN /\ reports' = StoreResult(reports, idx, res.report)
                         /\ errors' = errors + res.errs
                         /\ calls' = [calls EXCEPT ![idx] = @ + 1]
                         /\ last' = [idx |-> idx, r |-> r, site |-> "genall"]
                         /\ IF Truthy(res.report)
                            THEN /\ succ' = Put(succ, idx, res.report)
                                 /\ failed' = failed \ {idx}
                            ELSE /\ succ' = succ
                                 /\ failed' = failed \cup {idx}
               ELSE UNCHANGED <<reports, errors, calls, failed, succ, last>>
            /\ UNCHANGED <<pc, trigger, nav>>
    /\ UNCHANGED <<df, current_index, groq_client, uploaded_file, page, csv>>

\* how the page ends once the report of the current record is there
Rendered(c) == IF c.raised THEN "crash" ELSE "full"

\* the current record: lazy generation, report display, download buttons
View ==
    /\ pc = "view"
    /\ pc' = "idle"
    /\ IF ~ilocInRange(df, current_index)
       THEN \* IndexError
            /\ page' = "crash"
            /\ UNCHANGED <<reports, calls, last, errors, failed, csv>>
       ELSE IF ViewNeedsReport(current_index, reports)
       THEN \E r \in Responses :
              LET res == generate_report_with_groq(r)
                  m == StoreResult(reports, current_index, res.report)
              IN /\ reports' = m
                 /\ calls' = [calls EXCEPT ![current_index] = @ + 1]
                 /\ last' = [idx |-> current_index, r |-> r, site |-> "view"]
                 /\ IF Truthy(res.report)
                    THEN /\ errors' = errors + res.errs
                         /\ failed' = failed \ {current_index}
                         /\ csv' = DownloadAll(df, m)
                         /\ page' = Rendered(DownloadAll(df, m))
                    ELSE \* st.error(...) and st.stop()
                         /\ errors' = errors + res.errs + 1
                         /\ failed' = failed \cup {current_index}
                         /\ page' = "stopped"
                         /\ csv' = NoCsv
       ELSE /\ csv' = DownloadAll(df, reports)
            /\ page' = Rendered(DownloadAll(df, reports))
            /\ UNCHANGED <<reports, calls, last, errors, failed>>
    /\ UNCHANGED <<df, current_index, groq_client, uploaded_file, trigger, idx,
                   nav, succ>>

Next ==
    \/ Upload
    \/ RemoveFile
    \/ ClickPrevious
    \/ ClickNext
    \/ ClickGenerateAll
    \/ ClickCopy
    \/ Sidebar
    \/ Main
    \/ GenerateAll
    \/ View

Spec == Init /\ [][Next]_vars


\* the script runs to completion once started (synchronous execution)
RunStep == Sidebar \/ Main \/ GenerateAll \/ View

FairSpec == Spec /\ WF_vars(RunStep)

\* ------------------------------------------------------------ properties
CallMade == \E i \in Indices : calls'[i] = calls[i] + 1

FailedResponse(r) == r = Raise \/ r = ""

Placeholder == "Report not generated"

\* C1: a report stored for index i is neither removed nor replaced, and no
\* further completion call is made for i, by any step that does not belong
\* to the run started by a new upload.
C1_ReportKeptUntilUpload ==
    [][trigger' # "upload" =>
         \A i \in DOMAIN reports :
            /\ i \in DOMAIN reports'
            /\ reports'[i] = reports[i]
            /\ calls'[i] <= calls[i]]_vars

\* C2: whenever a table is loaded, 0 <= current_index <= recordCount - 1.
C2_IndexInRange ==
    df.kind = "table" => (0 <= current_index /\ current_index <= len(df) - 1)

C4_FailedCallKeepsMap ==
    [][(CallMade /\ FailedResponse(last'.r)) => reports' = reports]_vars

C4_Witness ==
    /\ last.site = "genall" /\ last.r = Raise
    /\ last.idx \notin DOMAIN reports
    /\ reports # EmptyMap

\* C5: when the record view is reached for an index whose earlier call
\* failed and which is still absent, a new completion call is made for it.
C5_FailedIndexRetriedOnView ==
    [][(pc = "view" /\ current_index \in failed
          /\ current_index \notin DOMAIN reports) =>
         /\ calls'[current_index] = calls[current_index] + 1
         /\ last'.idx = current_index
         /\ last'.site = "view"]_vars

C5_Witness ==
    /\ pc = "idle" /\ uploaded_file = NoFile
    /\ last.site = "view" /\ last.idx = current_index
    /\ calls[current_index] = 2
    /\ current_index \in DOMAIN reports

\* C6 (as amended): a raising completion call emits one error message
\* inside generate-all and two in the record view.
C6_ErrorsPerFailedCall ==
    [][(CallMade /\ last'.r = Raise) =>
         errors' = errors + (IF last'.site = "view" THEN 2 ELSE 1)]_vars

\* C6 (as stated): every raising completion call emits exactly one error
\* message.
C6_OneErrorPerFailedCall ==
    [][(CallMade /\ last'.r = Raise) => errors' = errors + 1]_vars

C6_Witness ==
    /\ pc = "idle" /\ page = "stopped"
    /\ last.site = "view" /\ last.r = Raise
    /\ errors = 2

\* C7: within one user action (with the re-runs it triggers) at most one
\* completion call is made per record index.
C7_OneCallPerAction == \A i \in Indices : calls[i] <= 1

\* C8: without a client no completion call is made, the report map stays
\* empty, the script never crashes and the finished page reports the
\* missing client.
C8_NoClientNoGeneration ==
    ~groq_client =>
        /\ reports = EmptyMap
        /\ calls = ZeroCalls
        /\ last = NoCall
        /\ page # "crash"
        /\ pc \in {"sidebar", "idle"}
        /\ pc = "idle" => (page = "no_client" /\ errors >= 1)

C8_Witness ==
    /\ ~groq_client /\ pc = "idle"
    /\ df.kind = "table" /\ len(df) >= 1
    /\ trigger = "remove"

\* C9: generate-all visits 0..recordCount-1 in ascending order, calls once
\* for each index absent when visited and not at all for a present one,
\* goes on after a failed call, terminates, and at the end of the loop every
\* index whose call succeeded holds that call's text.
C9_LoopStep ==
    (pc = "genall" /\ idx < len(df)) =>
        /\ idx' = idx + 1
        /\ pc' = "genall"
        /\ idx \in DOMAIN reports => (calls' = calls /\ reports' = reports)
        /\ idx \notin DOMAIN reports =>
              /\ calls' = [calls EXCEPT ![idx] = 1]
              /\ last'.idx = idx

C9_LoopInv ==
    pc = "genall" =>
        /\ idx <= len(df)
        /\ \A i \in Indices : i >= idx => calls[i] = 0
        /\ \A i \in DOMAIN succ :
              i < idx /\ i \in DOMAIN reports /\ reports[i] = succ[i]

\* C9: every loop step obeys C9_LoopStep, every loop state C9_LoopInv, and
\* a started generate-all loop is eventually left.
C9_GenerateAll ==
    /\ [][C9_LoopStep]_vars
    /\ []C9_LoopInv
    /\ (pc = "genall") ~> (pc # "genall")

C9_Witness ==
    /\ pc = "genall" /\ idx = len(df)
    /\ \E i, j, k \in 0..(len(df) - 1) :
          /\ i < j
          /\ calls[i] = 1 /\ i \notin DOMAIN reports
          /\ j \in DOMAIN succ
          /\ k \in DOMAIN reports /\ calls[k] = 0

\* C10: the keys of the report map are row indices of the loaded table,
\* every stored report is non-empty text, and when the map is as large as
\* the table every index is present and export row i carries reports[i].
C10_ReportMapWellFormed ==
    /\ DOMAIN reports \subseteq 0..(len(df) - 1)
    /\ \A i \in DOMAIN reports : reports[i] \in Texts
    /\ Cardinality(DOMAIN reports) = len(df) =>
          /\ DOMAIN reports = 0..(len(df) - 1)
          /\ DownloadAll(df, reports).enabled
          /\ \A i \in 0..(len(df) - 1) :
                DownloadAll(df, reports).rows[i + 1][2] = reports[i]

C10_Witness ==
    /\ len(df) >= 2
    /\ Cardinality(DOMAIN reports) = len(df)
    /\ pc = "idle" /\ page = "full"


=============================================================================
